---- MODULE Spec2Model ----
(***************************************************************************)
(* A model of the Thaumcraft research solver: the aspect catalog           *)
(* (aspect.rs), the inventory pricing (aspect.rs), the composition graph   *)
(* (graph.rs) and the breadth-first path engine (solver.rs).               *)
(***************************************************************************)
EXTENDS Integers, Sequences, FiniteSets, TLC

(* ------------------------------ bounds -------------------------------- *)

\* the number of add_composite_edges calls a run of the model makes
MaxRules == 1
\* the number of records in the THAUMCRAFT.ASPECTS list
MaxRecords == 2
\* the largest owned amount a record carries
MaxAmount == 2
\* the largest desired_distance of a query of the small-length model
MaxLength == 3
\* the largest max_distance_increase handed to find_paths
MaxSlack == 2
\* the number of add_composite_edges calls of the graph-only model
MaxGraphRules == 3

(* ------------------------- machine integers --------------------------- *)

U8Max == 255
U16Max == 65535

\* a u32 is held as its two 16-bit halves <<high, low>>: the checker's own
\* integers end at 2^31 - 1, below u32::MAX
I16Max == 32767

U32(n) == <<n \div (U16Max + 1), n % (U16Max + 1)>>
U32Max == <<U16Max, U16Max>>
U32FromU16(x) == <<0, x>>
LtU32(a, b) == a[1] < b[1] \/ (a[1] = b[1] /\ a[2] < b[2])
LeU32(a, b) == a = b \/ LtU32(a, b)
\* u32 and u8 additions, as a build without overflow checks computes them
AddU32(a, b) ==
  LET low == a[2] + b[2]
      high == a[1] + b[1] + (low \div (U16Max + 1))
  IN <<high % (U16Max + 1), low % (U16Max + 1)>>

\* a slip: the sum is left at its first operand
AddU8Stuck(a, b) == a

AddU8(a, b) == (a + b) % (U8Max + 1)

\* no aspect (Option<Aspect>), and no record (a frame, a result) at all
NoAspect == "None"
None == [tag |-> "None"]

(* --------------------------- aspect catalog --------------------------- *)

Values ==
  <<
    "Aer", "Alienis", "Aqua", "Arbor", "Auram", "Bestia", "Caelum", "Cognitio",
    "Corpus", "Desidia", "Electrum", "Exanimis", "Fabrico", "Fames", "Gelum", "Gloria",
    "Gula", "Herba", "Humanus", "Ignis", "Infernus", "Instrumentum", "Invidia", "Ira",
    "Iter", "Limus", "Lucrum", "Lux", "Luxuria", "Machina", "Magneto", "Messis",
    "Metallum", "Meto", "Mortuus", "Motus", "Nebrisum", "Ordo", "Pannus", "Perditio",
    "Perfodio", "Permutatio", "Potentia", "Praecantatio", "Primordium", "Radio",
    "Sano", "Sensus", "Spiritus", "Strontio", "Superbia", "Tabernus", "Telum",
    "Tempestas", "Tempus", "Tenebrae", "Terra", "Tutamen", "Vacuos", "Venenum",
    "Victus", "Vinculum", "Vitium", "Vitreus", "Volatus"
  >>

Aspect == {Values[i] : i \in DOMAIN Values}

\* the aspects the model's rules, records and queries are drawn from
Vocabulary == {"Aer", "Aqua", "Gloria"}

\* format!("{:?}", self): the variant's name, character by character
DebugName ==
  [a \in Aspect |->
    CASE a = "Aer" -> <<"A", "e", "r">>
      [] a = "Alienis" -> <<"A", "l", "i", "e", "n", "i", "s">>
      [] a = "Aqua" -> <<"A", "q", "u", "a">>
      [] a = "Arbor" -> <<"A", "r", "b", "o", "r">>
      [] a = "Auram" -> <<"A", "u", "r", "a", "m">>
      [] a = "Bestia" -> <<"B", "e", "s", "t", "i", "a">>
      [] a = "Caelum" -> <<"C", "a", "e", "l", "u", "m">>
      [] a = "Cognitio" -> <<"C", "o", "g", "n", "i", "t", "i", "o">>
      [] a = "Corpus" -> <<"C", "o", "r", "p", "u", "s">>
      [] a = "Desidia" -> <<"D", "e", "s", "i", "d", "i", "a">>
      [] a = "Electrum" -> <<"E", "l", "e", "c", "t", "r", "u", "m">>
      [] a = "Exanimis" -> <<"E", "x", "a", "n", "i", "m", "i", "s">>
      [] a = "Fabrico" -> <<"F", "a", "b", "r", "i", "c", "o">>
      [] a = "Fames" -> <<"F", "a", "m", "e", "s">>
      [] a = "Gelum" -> <<"G", "e", "l", "u", "m">>
      [] a = "Gloria" -> <<"G", "l", "o", "r", "i", "a">>
      [] a = "Gula" -> <<"G", "u", "l", "a">>
      [] a = "Herba" -> <<"H", "e", "r", "b", "a">>
      [] a = "Humanus" -> <<"H", "u", "m", "a", "n", "u", "s">>
      [] a = "Ignis" -> <<"I", "g", "n", "i", "s">>
      [] a = "Infernus" -> <<"I", "n", "f", "e", "r", "n", "u", "s">>
      [] a = "Instrumentum" -> <<"I", "n", "s", "t", "r", "u", "m", "e", "n", "t", "u", "m">>
      [] a = "Invidia" -> <<"I", "n", "v", "i", "d", "i", "a">>
      [] a = "Ira" -> <<"I", "r", "a">>
      [] a = "Iter" -> <<"I", "t", "e", "r">>
      [] a = "Limus" -> <<"L", "i", "m", "u", "s">>
      [] a = "Lucrum" -> <<"L", "u", "c", "r", "u", "m">>
      [] a = "Lux" -> <<"L", "u", "x">>
      [] a = "Luxuria" -> <<"L", "u", "x", "u", "r", "i", "a">>
      [] a = "Machina" -> <<"M", "a", "c", "h", "i", "n", "a">>
      [] a = "Magneto" -> <<"M", "a", "g", "n", "e", "t", "o">>
      [] a = "Messis" -> <<"M", "e", "s", "s", "i", "s">>
      [] a = "Metallum" -> <<"M", "e", "t", "a", "l", "l", "u", "m">>
      [] a = "Meto" -> <<"M", "e", "t", "o">>
      [] a = "Mortuus" -> <<"M", "o", "r", "t", "u", "u", "s">>
      [] a = "Motus" -> <<"M", "o", "t", "u", "s">>
      [] a = "Nebrisum" -> <<"N", "e", "b", "r", "i", "s", "u", "m">>
      [] a = "Ordo" -> <<"O", "r", "d", "o">>
      [] a = "Pannus" -> <<"P", "a", "n", "n", "u", "s">>
      [] a = "Perditio" -> <<"P", "e", "r", "d", "i", "t", "i", "o">>
      [] a = "Perfodio" -> <<"P", "e", "r", "f", "o", "d", "i", "o">>
      [] a = "Permutatio" -> <<"P", "e", "r", "m", "u", "t", "a", "t", "i", "o">>
      [] a = "Potentia" -> <<"P", "o", "t", "e", "n", "t", "i", "a">>
      [] a = "Praecantatio" -> <<"P", "r", "a", "e", "c", "a", "n", "t", "a", "t", "i", "o">>
      [] a = "Primordium" -> <<"P", "r", "i", "m", "o", "r", "d", "i", "u", "m">>
      [] a = "Radio" -> <<"R", "a", "d", "i", "o">>
      [] a = "Sano" -> <<"S", "a", "n", "o">>
      [] a = "Sensus" -> <<"S", "e", "n", "s", "u", "s">>
      [] a = "Spiritus" -> <<"S", "p", "i", "r", "i", "t", "u", "s">>
      [] a = "Strontio" -> <<"S", "t", "r", "o", "n", "t", "i", "o">>
      [] a = "Superbia" -> <<"S", "u", "p", "e", "r", "b", "i", "a">>
      [] a = "Tabernus" -> <<"T", "a", "b", "e", "r", "n", "u", "s">>
      [] a = "Telum" -> <<"T", "e", "l", "u", "m">>
      [] a = "Tempestas" -> <<"T", "e", "m", "p", "e", "s", "t", "a", "s">>
      [] a = "Tempus" -> <<"T", "e", "m", "p", "u", "s">>
      [] a = "Tenebrae" -> <<"T", "e", "n", "e", "b", "r", "a", "e">>
      [] a = "Terra" -> <<"T", "e", "r", "r", "a">>
      [] a = "Tutamen" -> <<"T", "u", "t", "a", "m", "e", "n">>
      [] a = "Vacuos" -> <<"V", "a", "c", "u", "o", "s">>
      [] a = "Venenum" -> <<"V", "e", "n", "e", "n", "u", "m">>
      [] a = "Victus" -> <<"V", "i", "c", "t", "u", "s">>
      [] a = "Vinculum" -> <<"V", "i", "n", "c", "u", "l", "u", "m">>
      [] a = "Vitium" -> <<"V", "i", "t", "i", "u", "m">>
      [] a = "Vitreus" -> <<"V", "i", "t", "r", "e", "u", "s">>
      [] a = "Volatus" -> <<"V", "o", "l", "a", "t", "u", "s">>]

UpperToLower ==
  [c \in {"A", "B", "C", "D", "E", "F", "G", "H", "I", "L", "M", "N", "O", "P",
          "Q", "R", "S", "T", "U", "V", "X"} |->
    CASE c = "A" -> "a" [] c = "B" -> "b" [] c = "C" -> "c" [] c = "D" -> "d"
      [] c = "E" -> "e" [] c = "F" -> "f" [] c = "G" -> "g" [] c = "H" -> "h"
      [] c = "I" -> "i" [] c = "L" -> "l" [] c = "M" -> "m" [] c = "N" -> "n"
      [] c = "O" -> "o" [] c = "P" -> "p" [] c = "Q" -> "q" [] c = "R" -> "r"
      [] c = "S" -> "s" [] c = "T" -> "t" [] c = "U" -> "u" [] c = "V" -> "v"
      [] c = "X" -> "x"]

ToAsciiLower(c) == IF c \in DOMAIN UpperToLower THEN UpperToLower[c] ELSE c

ToLowercase(s) == [i \in 1..Len(s) |-> ToAsciiLower(s[i])]

EqIgnoreAsciiCase(s, t) ==
  /\ Len(s) = Len(t)
  /\ \A i \in 1..Len(s) : ToAsciiLower(s[i]) = ToAsciiLower(t[i])

display_name(a) == ToLowercase(DebugName[a])

\* a slip: no override, every node is keyed by its display name
key_display_only(a) == display_name(a)

key(a) ==
  CASE a = "Primordium" -> <<"c", "u", "s", "t", "o", "m", "3">>
    [] a = "Gloria" -> <<"c", "u", "s", "t", "o", "m", "5">>
    [] OTHER -> display_name(a)

\* the first variant, in catalog order, whose key matches
RECURSIVE get_by_key_from(_, _)
get_by_key_from(i, name) ==
  IF i > Len(Values) THEN NoAspect
  ELSE IF EqIgnoreAsciiCase(key(Values[i]), name) THEN Values[i]
  ELSE get_by_key_from(i + 1, name)

get_by_key(name) == get_by_key_from(1, name)

\* strsim::levenshtein: the edit distance, row by row; acc holds the columns
\* 0..Len(acc)-1 of the row of the character c, prev the row before
Min3(x, y, z) == IF x <= y /\ x <= z THEN x ELSE IF y <= z THEN y ELSE z

RECURSIVE FillRow(_, _, _, _)
FillRow(prev, c, b, acc) ==
  IF Len(acc) > Len(b) THEN acc
  ELSE LET j == Len(acc)
           cost == IF c = b[j] THEN 0 ELSE 1
       IN FillRow(prev, c, b,
                  Append(acc, Min3(prev[j + 1] + 1, acc[j] + 1, prev[j] + cost)))

RECURSIVE LevRows(_, _, _, _)
LevRows(a, b, i, prev) ==
  IF i > Len(a) THEN prev[Len(b) + 1]
  ELSE LET row == FillRow(prev, a[i], b, <<i>>)
       \* the test has the row computed before the next one is asked for
       IN IF Len(row) = 0 THEN 0 ELSE LevRows(a, b, i + 1, row)

levenshtein(a, b) == LevRows(a, b, 1, [j \in 1..(Len(b) + 1) |-> j - 1])

\* an f64 score in [0, 1], kept as the fraction <<numerator, denominator>>
Score(n, d) == <<n, d>>
ScoreGt(x, y) == x[1] * y[2] > y[1] * x[2]
ScoreEq(x, y) == x[1] * y[2] = y[1] * x[2]

\* strsim::normalized_levenshtein: 1.0 for two empty strings, otherwise
\* 1.0 - distance / (the longer length)
normalized_levenshtein(a, b) ==
  IF a = <<>> /\ b = <<>> THEN Score(1, 1)
  ELSE LET longer == IF Len(a) >= Len(b) THEN Len(a) ELSE Len(b)
       IN Score(longer - levenshtein(a, b), longer)

\* the for loop of from_str_fuzzy from the i-th variant on
RECURSIVE FuzzyFrom(_, _, _, _)
FuzzyFrom(i, name, highest_score, best_match) ==
  IF i > Len(Values)
  THEN IF best_match # NoAspect
       THEN [aspect |-> best_match, score |-> highest_score]
       ELSE None
  ELSE LET variant_name == display_name(Values[i])
           input_name == ToLowercase(name)
           score == normalized_levenshtein(variant_name, input_name)
       IN IF ScoreGt(score, highest_score)
          THEN FuzzyFrom(i + 1, name, score, Values[i])
          ELSE FuzzyFrom(i + 1, name, highest_score, best_match)

\* highest_score starts at 0.0 and best_match at None
from_str_fuzzy(name) == FuzzyFrom(1, name, Score(0, 1), NoAspect)

(* ------------------------------- graph -------------------------------- *)

\* Graph::new(): no entry in the edges map
GraphNew == <<>>

add_edge(g, from, to) ==
  IF from \in DOMAIN g THEN [g EXCEPT ![from] = @ \cup {to}]
  ELSE g @@ (from :> {to})

\* a slip: the edge is added in one direction only
add_directional_edge_only(g, node_a, node_b) == add_edge(g, node_a, node_b)

add_indirectional_edge(g, node_a, node_b) ==
  add_edge(add_edge(g, node_a, node_b), node_b, node_a)

neighbours(g, node) == IF node \in DOMAIN g THEN g[node] ELSE {}

add_composite_edges(g, composite, primal_a, primal_b) ==
  add_indirectional_edge(add_indirectional_edge(g, composite, primal_a),
                         composite, primal_b)

\* the table of Solver::build_aspect_graph
CompositeRules ==
  <<
    <<"Alienis", "Vacuos", "Tenebrae">>, <<"Arbor", "Aer", "Herba">>,
    <<"Auram", "Praecantatio", "Aer">>, <<"Bestia", "Motus", "Victus">>,
    <<"Caelum", "Vitreus", "Metallum">>, <<"Cognitio", "Ignis", "Spiritus">>,
    <<"Corpus", "Mortuus", "Bestia">>, <<"Desidia", "Vinculum", "Spiritus">>,
    <<"Electrum", "Potentia", "Machina">>, <<"Exanimis", "Motus", "Mortuus">>,
    <<"Fabrico", "Humanus", "Instrumentum">>, <<"Fames", "Victus", "Vacuos">>,
    <<"Gelum", "Ignis", "Perditio">>, <<"Gula", "Fames", "Vacuos">>,
    <<"Herba", "Victus", "Terra">>, <<"Humanus", "Bestia", "Cognitio">>,
    <<"Infernus", "Ignis", "Praecantatio">>, <<"Instrumentum", "Humanus", "Ordo">>,
    <<"Invidia", "Sensus", "Fames">>, <<"Ira", "Telum", "Ignis">>,
    <<"Iter", "Motus", "Terra">>, <<"Limus", "Victus", "Aqua">>,
    <<"Lucrum", "Humanus", "Fames">>, <<"Lux", "Aer", "Ignis">>,
    <<"Luxuria", "Corpus", "Fames">>, <<"Machina", "Motus", "Instrumentum">>,
    <<"Magneto", "Metallum", "Iter">>, <<"Messis", "Herba", "Humanus">>,
    <<"Metallum", "Terra", "Vitreus">>, <<"Meto", "Messis", "Instrumentum">>,
    <<"Mortuus", "Victus", "Perditio">>, <<"Motus", "Aer", "Ordo">>,
    <<"Nebrisum", "Perfodio", "Lucrum">>, <<"Pannus", "Instrumentum", "Bestia">>,
    <<"Perfodio", "Humanus", "Terra">>, <<"Permutatio", "Perditio", "Ordo">>,
    <<"Potentia", "Ordo", "Ignis">>, <<"Praecantatio", "Vacuos", "Potentia">>,
    <<"Radio", "Lux", "Potentia">>, <<"Sano", "Victus", "Ordo">>,
    <<"Sensus", "Aer", "Spiritus">>, <<"Spiritus", "Victus", "Mortuus">>,
    <<"Strontio", "Cognitio", "Perditio">>, <<"Superbia", "Volatus", "Vacuos">>,
    <<"Tabernus", "Tutamen", "Iter">>, <<"Telum", "Instrumentum", "Ignis">>,
    <<"Tempestas", "Aer", "Aqua">>, <<"Tempus", "Vacuos", "Ordo">>,
    <<"Tenebrae", "Vacuos", "Lux">>, <<"Tutamen", "Instrumentum", "Terra">>,
    <<"Vacuos", "Aer", "Perditio">>, <<"Venenum", "Aqua", "Perditio">>,
    <<"Victus", "Aqua", "Terra">>, <<"Vinculum", "Motus", "Perditio">>,
    <<"Vitium", "Praecantatio", "Perditio">>, <<"Vitreus", "Terra", "Ordo">>,
    <<"Volatus", "Aer", "Motus">>
  >>

\* the calls of build_aspect_graph from the i-th on, in the order of the table
\* (h is never empty: the test has the graph evaluated call by call)
RECURSIVE AddRules(_, _, _)
AddRules(g, rules, i) ==
  IF i > Len(rules) THEN g
  ELSE LET h == add_composite_edges(g, rules[i][1], rules[i][2], rules[i][3])
       IN IF DOMAIN h = {} THEN h ELSE AddRules(h, rules, i + 1)

build_aspect_graph == AddRules(GraphNew, CompositeRules, 1)

(* ------------------------- ownership snapshot ------------------------- *)

\* nbt::Value, as far as from_nbt and parse_aspect tell the variants apart
StringValue(s) == [tag |-> "String", s |-> s]
ShortValue(v) == [tag |-> "Short", v |-> v]
OtherValue == [tag |-> "Other"]
CompoundValue(fields) == [tag |-> "Compound", fields |-> fields]
ListValue(items) == [tag |-> "List", items |-> items]

\* Result<_, String>
Ok(v) == [ok |-> TRUE, value |-> v]
Err(e) == [ok |-> FALSE, err |-> e]

\* i16 -> u16 by try_into: a negative short has no u16
TryIntoU16(v) == IF v >= 0 /\ v <= U16Max THEN Ok(v) ELSE Err("out of range")

\* a slip: a negative amount is taken as 0 instead of being refused
parse_aspect_lenient(aspect) ==
  IF aspect.tag # "Compound"
  THEN Err("Aspect inventory contains unexpected NBT element")
  ELSE LET aspect_data == aspect.fields IN
    IF ~("key" \in DOMAIN aspect_data /\ aspect_data["key"].tag = "String")
    THEN Err("Aspect key is missing or not a string")
    ELSE IF ~("amount" \in DOMAIN aspect_data /\ aspect_data["amount"].tag = "Short")
    THEN Err("Aspect amount is missing or not a short")
    ELSE LET a == get_by_key(aspect_data["key"].s)
             v == aspect_data["amount"].v IN
      IF a # NoAspect
      THEN Ok(<<a, IF v < 0 THEN 0 ELSE v>>)
      ELSE Err("Aspect inventory contains unknown aspect")

parse_aspect(aspect) ==
  IF aspect.tag # "Compound"
  THEN Err("Aspect inventory contains unexpected NBT element")
  ELSE LET aspect_data == aspect.fields IN
    IF ~("key" \in DOMAIN aspect_data /\ aspect_data["key"].tag = "String")
    THEN Err("Aspect key is missing or not a string")
    ELSE IF ~("amount" \in DOMAIN aspect_data /\ aspect_data["amount"].tag = "Short")
    THEN Err("Aspect amount is missing or not a short")
    ELSE IF ~TryIntoU16(aspect_data["amount"].v).ok
    THEN Err("Aspect amount is negative")
    ELSE LET a == get_by_key(aspect_data["key"].s) IN
      IF a # NoAspect
      THEN Ok(<<a, TryIntoU16(aspect_data["amount"].v).value>>)
      ELSE Err("Aspect inventory contains unknown aspect")

\* HashMap::insert: a later record of the same aspect replaces the earlier
MapInsert(m, k, v) == IF k \in DOMAIN m THEN [m EXCEPT ![k] = v] ELSE m @@ (k :> v)

SetMax(S) ==
  IF S = {} THEN 0
  ELSE LET x == CHOOSE y \in S : \A z \in S : z <= y IN x

SetMin(S) == CHOOSE y \in S : \A z \in S : y <= z

\* inventory.values().cloned().max().unwrap_or_default()
MaxAmountOf(inventory) == SetMax({inventory[a] : a \in DOMAIN inventory})

\* the for loop of from_nbt from record i on: the first bad record returns
RECURSIVE ParseRecords(_, _, _)
ParseRecords(aspect_values, i, inventory) ==
  IF i > Len(aspect_values)
  THEN Ok([inventory |-> inventory, max_amount |-> MaxAmountOf(inventory)])
  ELSE LET r == parse_aspect(aspect_values[i]) IN
    IF ~r.ok THEN Err(r.err)
    ELSE ParseRecords(aspect_values, i + 1,
                      MapInsert(inventory, r.value[1], r.value[2]))

\* nbt is the blob: the set of its entries' names and their values
from_nbt(nbt) ==
  IF "THAUMCRAFT.ASPECTS" \in DOMAIN nbt /\ nbt["THAUMCRAFT.ASPECTS"].tag = "List"
  THEN ParseRecords(nbt["THAUMCRAFT.ASPECTS"].items, 1, <<>>)
  ELSE Err("The NBT structure does not contain a valid list of ThaumCraft aspects")

\* a slip: an aspect absent from the snapshot counts as owned once
amount_of_absent_one(inv, aspect) ==
  IF aspect \in DOMAIN inv.inventory THEN inv.inventory[aspect] ELSE 1

amount_of(inv, aspect) ==
  IF aspect \in DOMAIN inv.inventory THEN inv.inventory[aspect] ELSE 0

\* a slip: the price grows with the amount owned
price_of_growing(inv, aspect) ==
  LET amount == amount_of(inv, aspect) IN
  IF amount = 0 THEN U16Max ELSE amount

\* a slip: no sentinel for an unowned aspect
price_of_no_sentinel(inv, aspect) ==
  (inv.max_amount + 1 - amount_of(inv, aspect)) % (U16Max + 1)

\* a slip: the + 1 is left out, the most owned aspect costs nothing
price_of_from_zero(inv, aspect) ==
  LET amount == amount_of(inv, aspect) IN
  IF amount = 0 THEN U16Max
  ELSE (inv.max_amount - amount) % (U16Max + 1)

price_of(inv, aspect) ==
  LET amount == amount_of(inv, aspect) IN
  IF amount = 0 THEN U16Max
  ELSE (inv.max_amount + 1 - amount) % (U16Max + 1)

(* ------------------------------- state -------------------------------- *)

VARIABLES
  pc,               \* where the program is; "panicked_in_search" after the overflow
                    \* of distance + 1 (line 71), "panicked_in_find_paths" after
                    \* that of distance + increase (line 31)
  aspect_inventory, \* the Result of AspectInventory::from_nbt, None before it
  edges,            \* Graph::edges of Solver::aspect_graph
  registered,       \* the rules build_aspect_graph has called add_composite_edges with so far
  iter_order,       \* the iteration order of each neighbour HashSet
  wrapping,         \* whether a u8 overflow has wrapped (a build without overflow checks)
  fp,               \* the frame of find_paths, None outside it
  start,            \* find_paths_with_length: its arguments and locals
  end,
  desired_distance,
  queue,
  lowest_price,
  paths,
  result,           \* the AspectPaths the last find_paths_with_length returned
  last,             \* the previous result of a query with the same arguments
  call              \* the catalog or inventory function called on its own, with its
                    \* argument and the value it returned; None when none was

vars ==
  <<pc, aspect_inventory, edges, registered, iter_order, wrapping, fp, start, end,
    desired_distance, queue, lowest_price, paths, result, last, call>>

graph_vars == <<edges, registered, iter_order>>
query_vars == <<start, end, desired_distance, queue, lowest_price, paths>>

Inventory == aspect_inventory.value

(* ------------------------------- inputs -------------------------------- *)

\* the strings a record's key is drawn from: keys of the vocabulary in either
\* case, a display name that is not a key, and a name of no aspect
KeyStrings ==
  {<<"a", "e", "r">>, <<"A", "q", "u", "a">>, <<"c", "u", "s", "t", "o", "m", "5">>,
   <<"g", "l", "o", "r", "i", "a">>}

KeyFields == {StringValue(s) : s \in KeyStrings} \cup {OtherValue}
AmountFields == {ShortValue(v) : v \in -1..MaxAmount} \cup {OtherValue}

RecordValues ==
  {CompoundValue([key |-> k, amount |-> a]) : k \in KeyFields, a \in AmountFields}
    \cup {CompoundValue([key |-> k]) : k \in KeyFields}
    \cup {CompoundValue([amount |-> a]) : a \in AmountFields}
    \cup {OtherValue}

\* the strings a lookup is given: every node's name as written in the catalog,
\* its display name and its key, and strings in another case, of no node, or
\* next to a node's name
LookupNames ==
  {DebugName[a] : a \in Aspect} \cup {display_name(a) : a \in Aspect}
    \cup {key(a) : a \in Aspect}
    \cup {<<"C", "U", "S", "T", "O", "M", "3">>, <<"C", "u", "s", "t", "o", "m", "5">>,
          <<"P", "R", "I", "M", "O", "R", "D", "I", "U", "M">>, <<"A", "E", "R">>,
          <<>>, <<"a", "g", "w", "a">>, <<"a", "q", "u">>, <<"a", "q", "u", "a", "a">>,
          <<"c", "u", "s", "t", "o", "m", "4">>, <<"z", "z", "z", "z", "z", "z", "z", "z", "z", "z", "z", "z">>}

SeqsUpTo(S, n) == UNION {[1..k -> S] : k \in 0..n}

NbtBlobs ==
  {("THAUMCRAFT.ASPECTS" :> ListValue(items)) : items \in SeqsUpTo(RecordValues, MaxRecords)}
    \cup {("THAUMCRAFT.ASPECTS" :> OtherValue), <<>>}

\* the orders in which a HashSet of the elements S may be iterated
Orders(S) == {o \in [1..Cardinality(S) -> S] : \A x \in S : \E i \in DOMAIN o : o[i] = x}

IterOrders(g) == {o \in [DOMAIN g -> UNION {Orders(g[n]) : n \in DOMAIN g}] :
                    \A n \in DOMAIN g : o[n] \in Orders(g[n])}

(* ----------------------------- construction --------------------------- *)

Init ==
  /\ pc = "main"
  /\ aspect_inventory = None
  /\ edges = GraphNew
  /\ registered = {}
  /\ iter_order = <<>>
  /\ wrapping = FALSE
  /\ fp = None
  /\ start = NoAspect
  /\ end = NoAspect
  /\ desired_distance = 0
  /\ queue = <<>>
  /\ lowest_price = U32(0)
  /\ paths = <<>>
  /\ result = None
  /\ last = None
  /\ call = None

\* AspectInventory::from_nbt on the downloaded blob; an Err ends the run
FromNbt(nbt) ==
  /\ pc = "main"
  /\ aspect_inventory' = from_nbt(nbt)
  /\ pc' = IF aspect_inventory'.ok THEN "build_aspect_graph" ELSE "inventory_error"
  /\ UNCHANGED <<call, graph_vars, wrapping, fp, query_vars, result, last>>

\* one add_composite_edges call of build_aspect_graph, of at most limit calls
AddCompositeEdgesUpTo(limit, composite, primal_a, primal_b) ==
  /\ pc = "build_aspect_graph"
  /\ Cardinality(registered \cup {<<composite, primal_a, primal_b>>}) <= limit
  /\ edges' = add_composite_edges(edges, composite, primal_a, primal_b)
  /\ registered' = registered \cup {<<composite, primal_a, primal_b>>}
  /\ UNCHANGED <<call, pc, aspect_inventory, iter_order, wrapping, fp, query_vars, result, last>>

AddCompositeEdges(composite, primal_a, primal_b) ==
  AddCompositeEdgesUpTo(MaxRules, composite, primal_a, primal_b)

\* build_aspect_graph returns and Solver::new has its Solver; from here the
\* neighbour sets no longer change, and neither does the order they iterate in
SolverNew(order) ==
  /\ pc = "build_aspect_graph"
  /\ iter_order' = order
  /\ registered' = {}
  /\ pc' = "ready"
  /\ UNCHANGED <<call, aspect_inventory, edges, wrapping, fp, query_vars, result, last>>

(* ------------------------------ path engine --------------------------- *)

\* a slip: a node without an entry yields itself
neighbours_cloned_iter_self(order, node) ==
  IF node \in DOMAIN order THEN order[node] ELSE <<node>>

\* self.aspect_graph.neighbours_cloned_iter(node), as the sequence it yields
neighbours_cloned_iter(order, node) == IF node \in DOMAIN order THEN order[node] ELSE <<>>

SolverState(node, price, distance, path) ==
  [node |-> node, price |-> price, distance |-> distance, path |-> path]

AspectPaths(ps, price) == [paths |-> ps, price |-> price]

\* line 52: a completed item is a candidate
IsCandidate(node, e, price, lowest) == node = e /\ LeU32(price, lowest)

\* line 53: the candidate replaces the ones retained so far
IsCheaper(price, lowest) == LtU32(price, lowest)

\* a slip: the price accumulated so far is not added
NewPriceOfNeighborOnly(neighbor_price, price) == U32FromU16(neighbor_price)

\* lines 63-64: the u16 price widened to u32 and added
NewPrice(neighbor_price, price) == AddU32(U32FromU16(neighbor_price), price)

\* a slip: a walk through an unowned aspect is given up
WithinBoundOwnedOnly(new_price, lowest) ==
  LeU32(new_price, lowest) /\ LtU32(new_price, U32(U16Max))

\* line 65: the bound on a frontier item
WithinBound(new_price, lowest) == LeU32(new_price, lowest)

\* lines 62-75: the items the for loop pushes, from the i-th neighbour on
RECURSIVE PushNeighbours(_, _, _, _, _, _)
PushNeighbours(ns, i, item, inv, lowest, acc) ==
  IF i > Len(ns) THEN acc
  ELSE LET neighbor == ns[i]
           new_price == NewPrice(price_of(inv, neighbor), item.price)
       IN IF WithinBound(new_price, lowest)
          THEN PushNeighbours(ns, i + 1, item, inv, lowest,
                 Append(acc, SolverState(neighbor, new_price, AddU8(item.distance, 1),
                                         Append(item.path, neighbor))))
          ELSE PushNeighbours(ns, i + 1, item, inv, lowest, acc)

\* the outcomes of a u8 addition that overflows: a build with overflow checks
\* panics, one without wraps; a run that has wrapped once is of the second kind
OverflowOutcomes == IF wrapping THEN {"wrap"} ELSE {"wrap", "panic"}

\* a slip: the bound and the list of paths are kept from call to call
\* instead of being created anew
EnterSearchKeepingBest(s, e, distance, prev) ==
  /\ start' = s
  /\ end' = e
  /\ desired_distance' = distance
  /\ UNCHANGED <<lowest_price, paths>>
  /\ queue' = <<SolverState(s, U32(0), 1, <<s>>)>>
  /\ result' = None
  /\ last' = IF prev # None /\ prev.args = <<s, e, distance>> THEN prev ELSE None
  /\ pc' = "searching"

\* lines 39-48; prev is the query that returned just before this one
EnterSearch(s, e, distance, prev) ==
  /\ start' = s
  /\ end' = e
  /\ desired_distance' = distance
  /\ lowest_price' = U32Max
  /\ paths' = <<>>
  /\ queue' = <<SolverState(s, U32(0), 1, <<s>>)>>
  /\ result' = None
  /\ last' = IF prev # None /\ prev.args = <<s, e, distance>> THEN prev ELSE None
  /\ pc' = "searching"

\* the query that has just returned, None when none has
Returned ==
  IF result = None THEN None
  ELSE [args |-> <<start, end, desired_distance>>, result |-> result]

Callable == pc \in {"ready", "returned", "find_paths_returned"}

\* a query may be put when the solver is built, or again, with the same
\* arguments, when it has just returned; a caller that goes on to another
\* query first drops the result it holds (Drop)
MayQuery(s, e, distance) ==
  \/ pc = "ready"
  \/ /\ pc \in {"returned", "find_paths_returned"}
     /\ <<s, e, distance>> = <<start, end, desired_distance>>

\* a call of find_paths_with_length on its own
FindPathsWithLength(s, e, distance) ==
  /\ MayQuery(s, e, distance)
  /\ EnterSearch(s, e, distance, Returned)
  /\ fp' = None
  /\ UNCHANGED <<call, aspect_inventory, graph_vars, wrapping>>

\* the caller drops the returned value; the locals of the call are long gone
Drop ==
  /\ pc \in {"returned", "find_paths_returned"}
  /\ pc' = "ready"
  /\ fp' = None
  /\ start' = NoAspect
  /\ end' = NoAspect
  /\ desired_distance' = 0
  /\ queue' = <<>>
  /\ lowest_price' = U32(0)
  /\ paths' = <<>>
  /\ result' = None
  /\ last' = None
  /\ UNCHANGED <<call, aspect_inventory, graph_vars, wrapping>>

\* one iteration of the while loop, lines 50-76
Step ==
  /\ pc = "searching"
  /\ queue # <<>>
  /\ LET item == Head(queue)
         pushed == PushNeighbours(neighbours_cloned_iter(iter_order, item.node), 1,
                                  item, Inventory, lowest_price, <<>>)
     IN IF item.distance = desired_distance
        THEN /\ IF IsCandidate(item.node, end, item.price, lowest_price)
                THEN IF IsCheaper(item.price, lowest_price)
                     THEN /\ paths' = <<item.path>>
                          /\ lowest_price' = item.price
                     ELSE /\ paths' = Append(paths, item.path)
                          /\ UNCHANGED lowest_price
                ELSE UNCHANGED <<paths, lowest_price>>
             /\ queue' = Tail(queue)
             /\ UNCHANGED <<pc, wrapping>>
        ELSE IF pushed # <<>> /\ item.distance + 1 > U8Max
        THEN \E outcome \in OverflowOutcomes :
               IF outcome = "panic"
               THEN /\ pc' = "panicked_in_search"
                    /\ UNCHANGED <<queue, paths, lowest_price, wrapping>>
               ELSE /\ queue' = Tail(queue) \o pushed
                    /\ wrapping' = TRUE
                    /\ UNCHANGED <<pc, paths, lowest_price>>
        ELSE /\ queue' = Tail(queue) \o pushed
             /\ UNCHANGED <<pc, paths, lowest_price, wrapping>>
  /\ UNCHANGED <<call, aspect_inventory, graph_vars, fp, start, end, desired_distance,
                 result, last>>

\* find_paths, lines 29-31: the map is empty and the for loop is entered
FindPaths(s, e, distance, max_distance_increase) ==
  /\ MayQuery(s, e, distance)
  /\ fp' = [start |-> s, end |-> e, distance |-> distance,
            max_distance_increase |-> max_distance_increase,
            increase |-> 0, best_paths |-> <<>>]
  /\ IF 0 < max_distance_increase
     THEN EnterSearch(s, e, distance, Returned)
     ELSE /\ pc' = "find_paths_returned"
          /\ start' = NoAspect
          /\ end' = NoAspect
          /\ desired_distance' = 0
          /\ queue' = <<>>
          /\ lowest_price' = U32(0)
          /\ paths' = <<>>
          /\ result' = None
          /\ last' = None
  /\ UNCHANGED <<call, aspect_inventory, graph_vars, wrapping>>

\* line 78: the queue is empty and find_paths_with_length returns; inside
\* find_paths, lines 32-35 and 30-31 follow: the result is inserted at the
\* offset and the loop goes on to the next length, or returns the map
Return ==
  /\ pc = "searching"
  /\ queue = <<>>
  /\ IF fp = None
     THEN /\ pc' = "returned"
          /\ result' = AspectPaths(paths, lowest_price)
          /\ UNCHANGED <<fp, wrapping, query_vars, last>>
     ELSE LET returned == AspectPaths(paths, lowest_price)
              increase == fp.increase + 1
              prev == [args |-> <<start, end, desired_distance>>, result |-> returned]
          IN /\ fp' = [fp EXCEPT !.best_paths = MapInsert(@, fp.increase, returned),
                                 !.increase = increase]
             /\ IF increase >= fp.max_distance_increase
                THEN /\ pc' = "find_paths_returned"
                     /\ result' = returned
                     /\ UNCHANGED <<wrapping, query_vars, last>>
                ELSE IF fp.distance + increase > U8Max
                THEN \E outcome \in OverflowOutcomes :
                       IF outcome = "panic"
                       THEN /\ pc' = "panicked_in_find_paths"
                            /\ result' = returned
                            /\ UNCHANGED <<wrapping, query_vars, last>>
                       ELSE /\ wrapping' = TRUE
                            /\ EnterSearch(fp.start, fp.end,
                                           AddU8(fp.distance, increase), prev)
                ELSE /\ EnterSearch(fp.start, fp.end, fp.distance + increase, prev)
                     /\ UNCHANGED wrapping
  /\ UNCHANGED <<call, aspect_inventory, graph_vars>>

(* ------------------- catalog and inventory functions ------------------ *)

\* AspectInventory::from_nbt called on a blob, the blob and the Result kept
CallFromNbt(nbt) ==
  /\ pc = "main"
  /\ call = None
  /\ call' = [fn |-> "from_nbt", arg |-> nbt, ret |-> from_nbt(nbt)]
  /\ UNCHANGED <<pc, aspect_inventory, graph_vars, wrapping, fp, query_vars, result, last>>

\* Aspect::get_by_key called on a string
CallGetByKey(name) ==
  /\ pc = "main"
  /\ call = None
  /\ call' = [fn |-> "get_by_key", arg |-> name, ret |-> get_by_key(name)]
  /\ UNCHANGED <<pc, aspect_inventory, graph_vars, wrapping, fp, query_vars, result, last>>

\* Aspect::from_str_fuzzy called on a string
CallFromStrFuzzy(name) ==
  /\ pc = "main"
  /\ call = None
  /\ call' = [fn |-> "from_str_fuzzy", arg |-> name, ret |-> from_str_fuzzy(name)]
  /\ UNCHANGED <<pc, aspect_inventory, graph_vars, wrapping, fp, query_vars, result, last>>

(* ---------------------------- specification --------------------------- *)

\* the lengths of the queries of Spec
Lengths == 1..MaxLength

Next ==
  \/ pc = "main" /\ \E nbt \in NbtBlobs : FromNbt(nbt)
  \/ pc = "build_aspect_graph" /\
       \E composite, primal_a, primal_b \in Vocabulary :
         AddCompositeEdges(composite, primal_a, primal_b)
  \/ pc = "build_aspect_graph" /\ \E order \in IterOrders(edges) : SolverNew(order)
  \/ Callable /\
       \E s, e \in Vocabulary, distance \in Lengths : FindPathsWithLength(s, e, distance)
  \/ Callable /\
       \E s, e \in Vocabulary, distance \in Lengths, slack \in 0..MaxSlack :
         FindPaths(s, e, distance, slack)
  \/ Step
  \/ Return
  \/ Drop

Spec == Init /\ [][Next]_vars

\* The construction alone: the inventory, the graph and the Solver, no query.
NextBuild ==
  \/ pc = "main" /\ \E nbt \in NbtBlobs : FromNbt(nbt)
  \/ pc = "build_aspect_graph" /\
       \E composite, primal_a, primal_b \in Vocabulary :
         AddCompositeEdges(composite, primal_a, primal_b)
  \/ pc = "build_aspect_graph" /\ \E order \in IterOrders(edges) : SolverNew(order)

SpecBuild == Init /\ [][NextBuild]_vars

\* AspectInventory::from_nbt called on its own, on every blob.
NextCalls == \E nbt \in NbtBlobs : CallFromNbt(nbt)

SpecCalls == Init /\ [][NextCalls]_vars

\* The two lookups of the catalog, each called on its own.
NextLookup ==
  \/ \E name \in LookupNames : CallGetByKey(name)
  \/ \E name \in LookupNames : CallFromStrFuzzy(name)

SpecLookup == Init /\ [][NextLookup]_vars

\* The graph-only model: build_aspect_graph with up to MaxGraphRules calls.
EmptySnapshot == "THAUMCRAFT.ASPECTS" :> ListValue(<<>>)

NextGraph ==
  \/ pc = "main" /\ \E nbt \in {EmptySnapshot, <<>>} : FromNbt(nbt)
  \/ pc = "build_aspect_graph" /\
       \E composite, primal_a, primal_b \in Vocabulary :
         AddCompositeEdgesUpTo(MaxGraphRules, composite, primal_a, primal_b)

SpecGraph == Init /\ [][NextGraph]_vars

\* The boundary-length model: queries at the ends of u8, 0 and 255 nodes. A
\* search that deep is explored where every node has at most one neighbour (a
\* walk then has one continuation); nothing is owned, every price the sentinel.
BoundaryLengths == {0, U8Max}

Narrow == \A n \in DOMAIN edges : Cardinality(edges[n]) <= 1

NextU8 ==
  \/ pc = "main" /\ \E nbt \in {EmptySnapshot, <<>>} : FromNbt(nbt)
  \/ pc = "build_aspect_graph" /\
       \E composite, primal_a, primal_b \in Vocabulary :
         AddCompositeEdges(composite, primal_a, primal_b)
  \/ pc = "build_aspect_graph" /\ \E order \in IterOrders(edges) : SolverNew(order)
  \/ Callable /\ Narrow /\
       \E s, e \in Vocabulary, distance \in BoundaryLengths :
         FindPathsWithLength(s, e, distance)
  \/ Callable /\ Narrow /\
       \E s, e \in Vocabulary, distance \in BoundaryLengths, slack \in 0..MaxSlack :
         FindPaths(s, e, distance, slack)
  \/ Step
  \/ Return
  \/ Drop

SpecU8 == Init /\ [][NextU8]_vars

\* The widest-numbers model: amounts at the ends of what a 16-bit record can
\* hold and searches of one node, of two and of 255 nodes, the longest a u8
\* length asks for, on graphs where every node has at most one neighbour.
BoundarySnapshots ==
  {("THAUMCRAFT.ASPECTS" :>
      ListValue(<<CompoundValue([key |-> StringValue(<<"a", "e", "r">>), amount |-> ShortValue(x)]),
                  CompoundValue([key |-> StringValue(<<"A", "q", "u", "a">>), amount |-> ShortValue(y)])>>)) :
     x, y \in {0, 1, I16Max}}

WideLengths == {1, 2, U8Max}

NextWide ==
  \/ pc = "main" /\ \E nbt \in BoundarySnapshots : FromNbt(nbt)
  \/ pc = "build_aspect_graph" /\
       \E composite, primal_a, primal_b \in Vocabulary :
         AddCompositeEdges(composite, primal_a, primal_b)
  \/ pc = "build_aspect_graph" /\ \E order \in IterOrders(edges) : SolverNew(order)
  \/ Callable /\ Narrow /\
       \E s, e \in Vocabulary, distance \in WideLengths :
         FindPathsWithLength(s, e, distance)
  \/ Step
  \/ Return
  \/ Drop

SpecWide == Init /\ [][NextWide]_vars

\* The same, with the loop running on: an iteration that can be taken is taken,
\* and the function returns once the queue is empty.
FairWide == SpecWide /\ WF_vars(Step) /\ WF_vars(Return)

(* ------------------------- reference definitions ---------------------- *)

\* the sequences of k nodes that continue a walk standing at u in graph g, by
\* exhaustive enumeration, node and edge revisits allowed (halved, to keep the
\* recursion shallow for walks of 255 nodes)
RECURSIVE Continuations(_, _, _)
Continuations(g, u, k) ==
  IF k = 0 THEN {<<>>}
  ELSE IF k = 1 THEN {<<v>> : v \in neighbours(g, u)}
  ELSE LET h == k \div 2
       IN UNION {{a \o b : b \in Continuations(g, a[Len(a)], k - h)} :
                   a \in Continuations(g, u, h)}

\* the walks of n nodes from s; there is no walk of 0 nodes
Walks(g, s, n) == IF n = 0 THEN {} ELSE {<<s>> \o c : c \in Continuations(g, s, n - 1)}

WalksTo(g, s, e, n) == {w \in Walks(g, s, n) : w[Len(w)] = e}

\* the prices of the nodes lo..hi of w, summed as a number
RECURSIVE PriceSum(_, _, _, _)
PriceSum(inv, w, lo, hi) ==
  IF lo > hi THEN 0
  ELSE IF lo = hi THEN price_of(inv, w[lo])
  ELSE LET mid == (lo + hi) \div 2
       IN PriceSum(inv, w, lo, mid) + PriceSum(inv, w, mid + 1, hi)

\* the cost of a walk: the prices of its nodes but the first
WalkCost(inv, w) == PriceSum(inv, w, 2, Len(w))

\* a query has returned its AspectPaths (on its own, or as the last of find_paths)
Answered == pc \in {"returned", "find_paths_returned"} /\ result # None

\* the walks the query that has returned was about
QueryWalks == WalksTo(edges, start, end, desired_distance)

PathSet(ps) == {ps[i] : i \in DOMAIN ps}

(* ------------------------------- claims ------------------------------- *)

\* C1: minimality. When a query of length >= 2 has returned, no walk of that
\* many nodes from start to end costs less than the returned price, the
\* returned price is the cost of such a walk whenever one exists, and it is
\* the cost of every returned path.
C1_Minimality ==
  (Answered /\ desired_distance >= 2) =>
    /\ \A w \in QueryWalks : LeU32(result.price, U32(WalkCost(Inventory, w)))
    /\ QueryWalks # {} => \E w \in QueryWalks : U32(WalkCost(Inventory, w)) = result.price
    /\ \A p \in PathSet(result.paths) : U32(WalkCost(Inventory, p)) = result.price

\* a query of three nodes had walks of different costs to choose from
C1_Witness ==
  /\ Answered
  /\ desired_distance = 3
  /\ \E v, w \in QueryWalks : WalkCost(Inventory, v) < WalkCost(Inventory, w)
  /\ result.paths # <<>>

\* C2: completeness of the result set. The returned paths are exactly the walks
\* of desired_distance nodes from start to end whose cost is the returned
\* price, each of them once.
C2_Complete ==
  Answered =>
    /\ PathSet(result.paths) =
         {w \in QueryWalks : U32(WalkCost(Inventory, w)) = result.price}
    /\ Cardinality(PathSet(result.paths)) = Len(result.paths)

\* C3: path validity. Every returned path has desired_distance nodes, begins at
\* start, ends at end, and steps along edges of the graph.
C3_PathValid ==
  Answered =>
    \A p \in PathSet(result.paths) :
      /\ Len(p) = desired_distance
      /\ p[1] = start
      /\ p[Len(p)] = end
      /\ \A i \in 1..(Len(p) - 1) : p[i + 1] \in neighbours(edges, p[i])

\* C4: the no-path outcome. No query panics; one that has returned has an empty
\* path list and the price u32::MAX when no walk exists, and a non-empty list
\* and a price below u32::MAX when one does.
C4_NoPathOutcome ==
  /\ pc # "panicked_in_search"
  /\ Answered =>
       IF QueryWalks = {}
       THEN result.paths = <<>> /\ result.price = U32Max
       ELSE result.paths # <<>> /\ LtU32(result.price, U32Max)

\* C5: the forced-unowned-node scenario, with X = Aer, Y = Aqua, Z = Gloria:
\* rule (Z, X, Y) alone and ownership {X: 2, Y: 2}. X and Y cost 1, Z the
\* sentinel 65535, and the search from X to Y with 3 nodes returns the one
\* path [X, Z, Y] at price 65536.
C5_Scenario ==
  /\ aspect_inventory # None
  /\ aspect_inventory.ok
  /\ Inventory.inventory = ("Aer" :> 2) @@ ("Aqua" :> 2)
  /\ pc # "build_aspect_graph"
  /\ edges = add_composite_edges(GraphNew, "Gloria", "Aer", "Aqua")

C5_ForcedUnowned ==
  C5_Scenario =>
    /\ price_of(Inventory, "Aer") = 1
    /\ price_of(Inventory, "Aqua") = 1
    /\ price_of(Inventory, "Gloria") = 65535
    /\ (Answered /\ <<start, end, desired_distance>> = <<"Aer", "Aqua", 3>>) =>
         result = AspectPaths(<< <<"Aer", "Gloria", "Aqua">> >>, U32(65536))

C5_Witness ==
  /\ C5_Scenario
  /\ Answered
  /\ <<start, end, desired_distance>> = <<"Aer", "Aqua", 3>>

\* C6: cost monotonicity. For the inventory from_nbt has built and aspects n, m
\* with m owned: more of n than of m makes n strictly cheaper, as much of n as
\* of m makes them cost the same; and no price is negative.
C6_CostMonotone ==
  (pc = "build_aspect_graph" /\ registered = {}) =>
    \A n, m \in Aspect :
      /\ price_of(Inventory, n) >= 0
      /\ amount_of(Inventory, m) > 0 =>
           /\ amount_of(Inventory, n) > amount_of(Inventory, m) =>
                price_of(Inventory, n) < price_of(Inventory, m)
           /\ amount_of(Inventory, n) = amount_of(Inventory, m) =>
                price_of(Inventory, n) = price_of(Inventory, m)

\* from_nbt has built an inventory of two aspects owned in different amounts
C6_Witness ==
  /\ pc = "build_aspect_graph"
  /\ \E n, m \in Vocabulary :
       /\ amount_of(Inventory, m) > 0
       /\ amount_of(Inventory, n) > amount_of(Inventory, m)

\* C7: an aspect owned zero times, absent from the snapshot or present with
\* amount 0, costs u16::MAX = 65535, more than every owned aspect.
C7_UnownedSentinel ==
  (pc = "build_aspect_graph" /\ registered = {}) =>
    \A n \in Aspect :
      ~(n \in DOMAIN Inventory.inventory /\ Inventory.inventory[n] > 0) =>
        /\ price_of(Inventory, n) = 65535
        /\ \A m \in Aspect :
             amount_of(Inventory, m) > 0 => price_of(Inventory, m) < price_of(Inventory, n)

\* an inventory with an aspect present at amount 0, one absent and one owned
C7_Witness ==
  /\ pc = "build_aspect_graph"
  /\ \E n, m, k \in Vocabulary :
       /\ n \in DOMAIN Inventory.inventory
       /\ Inventory.inventory[n] = 0
       /\ k \notin DOMAIN Inventory.inventory
       /\ amount_of(Inventory, m) > 0

Symmetric(g) == \A u, v \in Aspect : v \in neighbours(g, u) <=> u \in neighbours(g, v)

RuleHolds(g, r) ==
  /\ r[2] \in neighbours(g, r[1])
  /\ r[3] \in neighbours(g, r[1])
  /\ r[1] \in neighbours(g, r[2])
  /\ r[1] \in neighbours(g, r[3])

\* the same of the graph build_aspect_graph builds from its table
BuiltGraphSymmetric ==
  /\ Symmetric(build_aspect_graph)
  /\ \A i \in DOMAIN CompositeRules : RuleHolds(build_aspect_graph, CompositeRules[i])

\* C8: graph symmetry. After any sequence of add_composite_edges calls, every
\* registered rule (R, A, B) has A and B among the neighbours of R and R among
\* those of A and of B, and v is a neighbour of u exactly when u is one of v;
\* so it is of the graph of build_aspect_graph.
C8_GraphSymmetry ==
  /\ \A r \in registered : RuleHolds(edges, r)
  /\ Symmetric(edges)
  /\ BuiltGraphSymmetric

\* MaxGraphRules rules are registered, two of them meeting in an aspect
C8_Witness ==
  /\ Cardinality(registered) = MaxGraphRules
  /\ \E r, q \in registered : r # q /\ r[1] # r[2] /\ r[2] = q[3] /\ r[1] # q[1]

\* the result of an independent search of n nodes from s to e
RefPaths(s, e, n) ==
  LET W == WalksTo(edges, s, e, n)
  IN {w \in W : \A v \in W : WalkCost(Inventory, w) <= WalkCost(Inventory, v)}

RefPrice(s, e, n) ==
  LET P == RefPaths(s, e, n)
  IN IF P = {} THEN U32Max ELSE U32(WalkCost(Inventory, CHOOSE w \in P : TRUE))

\* C9: the length-window search. find_paths(start, end, targetLength, maxSlack)
\* does not panic; the map it returns has the offsets 0 .. maxSlack - 1 as its
\* keys, and at offset i the result of a search of targetLength + i nodes.
C9_LengthWindow ==
  /\ (fp # None) => pc \notin {"panicked_in_search", "panicked_in_find_paths"}
  /\ (pc = "find_paths_returned") =>
       /\ DOMAIN fp.best_paths = 0..(fp.max_distance_increase - 1)
       /\ \A i \in DOMAIN fp.best_paths :
            /\ PathSet(fp.best_paths[i].paths) = RefPaths(fp.start, fp.end, fp.distance + i)
            /\ Len(fp.best_paths[i].paths) = Cardinality(PathSet(fp.best_paths[i].paths))
            /\ fp.best_paths[i].price = RefPrice(fp.start, fp.end, fp.distance + i)

\* C10: idempotence. A query put again, with the same arguments, returns the
\* same paths and the same price as the time before; and no step of a query
\* changes the graph, its iteration order or the inventory.
C10_SameAnswer ==
  (Answered /\ last # None) =>
    /\ PathSet(result.paths) = PathSet(last.result.paths)
    /\ Len(result.paths) = Len(last.result.paths)
    /\ result.price = last.result.price

C10_Idempotent ==
  /\ []C10_SameAnswer
  /\ [][pc \notin {"main", "build_aspect_graph"} =>
          UNCHANGED <<edges, iter_order, aspect_inventory>>]_vars

\* a query with two paths to return has returned them a second time
C10_Witness ==
  /\ Answered
  /\ last # None
  /\ Len(result.paths) >= 2

\* a node with no recorded neighbours
Isolated(node) == neighbours(edges, node) = {}

\* a search is under way or has returned
InQuery == pc \in {"searching", "returned", "find_paths_returned"} /\ start # NoAspect

\* C11: isolated endpoints. In a search of length >= 2 whose start or end has no
\* recorded neighbours, the loop never panics, no path is ever retained, and
\* the value returned has an empty path list.
C11_IsolatedEndpoints ==
  /\ (pc = "panicked_in_search" /\ desired_distance >= 2) =>
       ~(Isolated(start) \/ Isolated(end))
  /\ (InQuery /\ desired_distance >= 2 /\ (Isolated(start) \/ Isolated(end))) =>
       /\ paths = <<>>
       /\ result # None => result.paths = <<>>

\* a search of three nodes from a node with neighbours to an isolated one has
\* returned
C11_Witness ==
  /\ Answered
  /\ desired_distance = 3
  /\ ~Isolated(start)
  /\ Isolated(end)

\* from_nbt has been called on its own
CalledFromNbt == call # None /\ call.fn = "from_nbt"

\* the blob has the entry THAUMCRAFT.ASPECTS and it is a list
HasAspectList(nbt) ==
  "THAUMCRAFT.ASPECTS" \in DOMAIN nbt /\ nbt["THAUMCRAFT.ASPECTS"].tag = "List"

\* a record is a compound with a string key that is the key of a catalog node
\* and a 16-bit amount that is not negative
WellFormed(r) ==
  /\ r.tag = "Compound"
  /\ "key" \in DOMAIN r.fields
  /\ r.fields["key"].tag = "String"
  /\ "amount" \in DOMAIN r.fields
  /\ r.fields["amount"].tag = "Short"
  /\ r.fields["amount"].v >= 0
  /\ \E a \in Aspect : EqIgnoreAsciiCase(key(a), r.fields["key"].s)

\* the errors that the defects of a malformed record call for
DefectErrors(r) ==
  IF r.tag # "Compound" THEN {"Aspect inventory contains unexpected NBT element"}
  ELSE
    (IF ~("key" \in DOMAIN r.fields /\ r.fields["key"].tag = "String")
     THEN {"Aspect key is missing or not a string"}
     ELSE IF \A a \in Aspect : ~EqIgnoreAsciiCase(key(a), r.fields["key"].s)
     THEN {"Aspect inventory contains unknown aspect"} ELSE {})
    \cup
    (IF ~("amount" \in DOMAIN r.fields /\ r.fields["amount"].tag = "Short")
     THEN {"Aspect amount is missing or not a short"}
     ELSE IF r.fields["amount"].v < 0
     THEN {"Aspect amount is negative"} ELSE {})

\* the node a well-formed record names
NamedBy(r) == CHOOSE a \in Aspect : EqIgnoreAsciiCase(key(a), r.fields["key"].s)

\* C12: a malformed inventory is rejected as a whole. from_nbt returns an
\* inventory exactly when the blob has the list and every record of it is
\* well-formed; otherwise it returns an error and nothing of an inventory,
\* and the error is one that the first malformed record calls for. The
\* inventory returned holds the nodes the records name, each with the amount
\* of the last record naming it.
C12_RejectedAsAWhole ==
  CalledFromNbt =>
    LET nbt == call.arg
        ret == call.ret
        items == IF HasAspectList(nbt) THEN nbt["THAUMCRAFT.ASPECTS"].items ELSE <<>>
        bad == {i \in DOMAIN items : ~WellFormed(items[i])}
    IN /\ ret.ok <=> (HasAspectList(nbt) /\ bad = {})
       /\ ~ret.ok => DOMAIN ret = {"ok", "err"}
       /\ ~HasAspectList(nbt) =>
            ret.err = "The NBT structure does not contain a valid list of ThaumCraft aspects"
       /\ bad # {} => ret.err \in DefectErrors(items[SetMin(bad)])
       /\ ret.ok =>
            /\ DOMAIN ret.value.inventory = {NamedBy(items[i]) : i \in DOMAIN items}
            /\ \A i \in DOMAIN items :
                 (\A j \in DOMAIN items : j > i => NamedBy(items[j]) # NamedBy(items[i]))
                   => ret.value.inventory[NamedBy(items[i])] = items[i].fields["amount"].v

\* a blob whose first record is well-formed and whose second is not has been
\* refused
C12_Witness ==
  /\ CalledFromNbt
  /\ HasAspectList(call.arg)
  /\ Len(call.arg["THAUMCRAFT.ASPECTS"].items) = 2
  /\ WellFormed(call.arg["THAUMCRAFT.ASPECTS"].items[1])
  /\ ~WellFormed(call.arg["THAUMCRAFT.ASPECTS"].items[2])
  /\ ~call.ret.ok

\* get_by_key has been called on its own
CalledGetByKey == call # None /\ call.fn = "get_by_key"

\* the key of a node as the catalog states it: the override of the two nodes
\* that have one, the name in lower case of the others
StatedKey(a) ==
  IF a = "Primordium" THEN <<"c", "u", "s", "t", "o", "m", "3">>
  ELSE IF a = "Gloria" THEN <<"c", "u", "s", "t", "o", "m", "5">>
  ELSE ToLowercase(DebugName[a])

\* C13: exact lookup. get_by_key returns a node exactly when that node's key
\* equals the string ignoring ASCII case, and nothing when no key does; the
\* two nodes with an override key are found by the override, in any case, and
\* not by their display name.
C13_ExactLookup ==
  CalledGetByKey =>
    /\ \A a \in Aspect : call.ret = a <=> EqIgnoreAsciiCase(StatedKey(a), call.arg)
    /\ call.ret = NoAspect <=> \A a \in Aspect : ~EqIgnoreAsciiCase(StatedKey(a), call.arg)
    /\ EqIgnoreAsciiCase(call.arg, <<"c", "u", "s", "t", "o", "m", "3">>) => call.ret = "Primordium"
    /\ EqIgnoreAsciiCase(call.arg, <<"c", "u", "s", "t", "o", "m", "5">>) => call.ret = "Gloria"
    /\ EqIgnoreAsciiCase(call.arg, <<"p", "r", "i", "m", "o", "r", "d", "i", "u", "m">>) => call.ret = NoAspect
    /\ EqIgnoreAsciiCase(call.arg, <<"g", "l", "o", "r", "i", "a">>) => call.ret = NoAspect

\* the override key of Gloria, in mixed case, has been looked up
C13_Witness ==
  /\ CalledGetByKey
  /\ call.arg = <<"C", "u", "s", "t", "o", "m", "5">>
  /\ call.ret = "Gloria"

\* from_str_fuzzy has been called on its own
CalledFromStrFuzzy == call # None /\ call.fn = "from_str_fuzzy"

\* the score of the i-th node of the catalog against the text
ScoreOf(i, text) == normalized_levenshtein(display_name(Values[i]), ToLowercase(text))

\* the first node, in catalog order, that no node outscores
FirstBest(text) ==
  CHOOSE i \in DOMAIN Values :
    /\ \A j \in DOMAIN Values : ~ScoreGt(ScoreOf(j, text), ScoreOf(i, text))
    /\ \A j \in 1..(i - 1) : ScoreGt(ScoreOf(i, text), ScoreOf(j, text))

\* C14: fuzzy lookup always answers on the catalog, which is not empty. For
\* every text, a text scoring 0 against every node included, from_str_fuzzy
\* returns the first node in catalog order that no node outscores, with its
\* score.
C14_FuzzyAlwaysAnswers ==
  CalledFromStrFuzzy =>
    /\ call.ret # None
    /\ call.ret.aspect = Values[FirstBest(call.arg)]
    /\ ScoreEq(call.ret.score, ScoreOf(FirstBest(call.arg), call.arg))

\* the items of the queue
Frontier == {queue[i] : i \in DOMAIN queue}

\* a u32 as a number
ToNat(u) == u[1] * (U16Max + 1) + u[2]

\* every amount of an inventory is at most 32767; for an owned node
\* max_amount + 1 fits u16, amount does not exceed it, and the price is
\* max_amount + 1 - amount, within 1..max_amount
C15_PriceInRange ==
  (aspect_inventory # None /\ aspect_inventory.ok) =>
    \A a \in Aspect :
      LET amount == amount_of(Inventory, a)
          max_amount == Inventory.max_amount
      IN /\ amount <= I16Max
         /\ amount > 0 =>
              /\ max_amount + 1 <= U16Max
              /\ amount <= max_amount + 1
              /\ price_of(Inventory, a) = max_amount + 1 - amount
              /\ price_of(Inventory, a) \in 1..max_amount

\* the price of a frontier item of at most 255 nodes is at most 65535 for each
\* node but the first, 254 * 65535 at the most
C15_SumInRange ==
  pc = "searching" =>
    \A item \in Frontier :
      Len(item.path) <= U8Max =>
        /\ item.price[1] < U8Max
        /\ ToNat(item.price) <= (Len(item.path) - 1) * U16Max
        /\ LtU32(item.price, U32Max)

\* the u32 price of an item just enqueued is, as numbers, the price of the item
\* it comes from plus the price of its node: the addition has not wrapped
C15_SumExact ==
  (pc = "searching" /\ pc' = "searching" /\ queue # <<>> /\ queue' # queue
     /\ desired_distance' = desired_distance
     /\ Head(queue).distance # desired_distance) =>
    \A i \in Len(queue)..Len(queue') :
      ToNat(queue'[i].price) =
        ToNat(Head(queue).price) + price_of(Inventory, queue'[i].node)

\* C15: no arithmetic overflow in pricing or accumulation. price_of computes
\* max_amount + 1 - amount within u16 and yields a value in 1..max_amount for an
\* owned node; the u32 price accumulated by a frontier item of up to 255 nodes
\* is the exact sum of up to 254 prices of at most 65535, below u32::MAX.
C15_NoOverflow ==
  /\ [](C15_PriceInRange /\ C15_SumInRange)
  /\ [][C15_SumExact]_vars

\* with a node owned 32767 times, a frontier item of 255 nodes, none of them
\* owned, carries the price 254 * 65535
C15_Witness ==
  /\ pc = "searching"
  /\ \E a \in Vocabulary : amount_of(Inventory, a) = I16Max
  /\ \E item \in Frontier :
       /\ Len(item.path) = U8Max
       /\ item.price = U32((U8Max - 1) * U16Max)

\* C16: the frontier invariant. In every state of the loop every item of the
\* queue has a path that starts with start, ends with the item's node, has
\* exactly `distance` elements and goes along edges of the graph; its distance
\* is within 1..desired_distance when desired_distance >= 1; and its price is
\* the sum of the prices of the path's elements but the first.
C16_FrontierInvariant ==
  pc = "searching" =>
    \A item \in Frontier :
      /\ item.path[1] = start
      /\ item.path[Len(item.path)] = item.node
      /\ Len(item.path) = item.distance
      /\ \A i \in 1..(Len(item.path) - 1) :
           item.path[i + 1] \in neighbours(edges, item.path[i])
      /\ desired_distance >= 1 => (1 <= item.distance /\ item.distance <= desired_distance)
      /\ item.price = U32(WalkCost(Inventory, item.path))

\* the paths of the queue's items of distance k
QueuedAt(k) == {item.path : item \in {x \in Frontier : x.distance = k}}

\* the walks that the expansion of the queue's items of distance k will add
ToComeFrom(k) ==
  UNION {{Append(item.path, v) : v \in neighbours(edges, item.node)} :
           item \in {x \in Frontier : x.distance = k}}

\* the queue is in non-decreasing order of distance, the distances at most 1 apart
C17_QueueOrder ==
  \A i, j \in DOMAIN queue :
    i < j => (queue[i].distance <= queue[j].distance
              /\ queue[j].distance <= queue[i].distance + 1)

\* while an item short of desired_distance is at the head, nothing has
\* tightened the bound, and the walks of as many nodes as the last item has are
\* all in the queue or about to be added to it
C17_BoundUntouched ==
  (pc = "searching" /\ queue # <<>> /\ Head(queue).distance < desired_distance) =>
    /\ lowest_price = U32Max
    /\ paths = <<>>
    /\ LET k == queue[Len(queue)].distance
       IN Walks(edges, start, k) = QueuedAt(k) \cup ToComeFrom(k - 1)

\* once the head has desired_distance nodes, the queue holds walks of
\* desired_distance nodes only
C17_LastLevel ==
  (pc = "searching" /\ queue # <<>> /\ desired_distance >= 2
     /\ Head(queue).distance = desired_distance) =>
    QueuedAt(desired_distance) = PathSet([i \in DOMAIN queue |-> queue[i].path])
      /\ QueuedAt(desired_distance) \subseteq Walks(edges, start, desired_distance)

\* the expansion of an item short of desired_distance enqueues one item for
\* every neighbour of its node: the test new_price <= lowest_price lets all pass
C17_ExpandsAll ==
  (pc = "searching" /\ pc' = "searching" /\ queue # <<>> /\ desired_distance >= 2
     /\ desired_distance' = desired_distance /\ queue' # queue
     /\ Head(queue).distance < desired_distance) =>
    /\ Len(queue') = Len(queue) - 1 + Cardinality(neighbours(edges, Head(queue).node))
    /\ {queue'[i].path : i \in Len(queue)..Len(queue')} =
         {Append(Head(queue).path, v) : v \in neighbours(edges, Head(queue).node)}

\* C17: the cost bound never prunes. The queue is first in, first out, so the
\* bound is still u32::MAX whenever an item short of desired_distance is
\* expanded; for desired_distance >= 2 every neighbour passes the test, and
\* every walk of desired_distance nodes from start is enqueued and then
\* evaluated.
C17_BoundNeverPrunes ==
  /\ [](C17_QueueOrder /\ C17_BoundUntouched /\ C17_LastLevel)
  /\ [][C17_ExpandsAll]_vars

\* a walk through an unowned aspect waits in the queue, behind an item still
\* to be expanded, in a search of three nodes
C17_Witness ==
  /\ pc = "searching"
  /\ desired_distance = 3
  /\ Len(queue) >= 2
  /\ Head(queue).distance = 2
  /\ queue[Len(queue)].distance = 3
  /\ LeU32(U32(U16Max), queue[Len(queue)].price)

\* a search of 1..=255 nodes is under way
Searching == pc = "searching" /\ desired_distance \in 1..U8Max

\* no item is further than desired_distance, so distance + 1 is only computed
\* below 255; the search has not panicked, and a search of one node has
\* nothing but the start item in its queue
C18_CounterInRange ==
  /\ (desired_distance \in 1..U8Max) => pc # "panicked_in_search"
  /\ Searching =>
       /\ \A item \in Frontier : item.distance \in 1..desired_distance
       /\ desired_distance = 1 =>
            queue \in {<<>>, <<SolverState(start, U32(0), 1, <<start>>)>>}

\* an iteration on an item of desired_distance nodes takes it off the queue and
\* adds nothing; one on a shorter item adds items one node further; neither
\* wraps the counter
C18_OneFurther ==
  (Searching /\ queue # <<>> /\ queue' # queue /\ desired_distance' = desired_distance
     /\ pc' = "searching") =>
    /\ wrapping' = wrapping
    /\ IF Head(queue).distance = desired_distance
       THEN queue' = Tail(queue)
       ELSE /\ Len(queue') >= Len(queue) - 1
            /\ \A i \in 1..(Len(queue) - 1) : queue'[i] = queue[i + 1]
            /\ \A i \in Len(queue)..Len(queue') :
                 queue'[i].distance = Head(queue).distance + 1

\* a search of one node returns [start] at price 0 when start = end and
\* nothing, at u32::MAX, otherwise
C18_OneNode ==
  (Answered /\ desired_distance = 1) =>
    result = IF start = end THEN AspectPaths(<<<<start>>>>, U32(0))
             ELSE AspectPaths(<<>>, U32Max)

\* C18: termination. A search of 1..=255 nodes comes to an empty queue and
\* returns: every enqueued item is one node further than the item that
\* produced it, an item of desired_distance nodes is evaluated and not
\* expanded, and the u8 counter does not overflow. A search of one node
\* evaluates the start item alone.
C18_Terminates ==
  /\ [](C18_CounterInRange /\ C18_OneNode)
  /\ [][C18_OneFurther]_vars
  /\ Searching ~> (pc = "returned")

\* a search of 255 nodes has returned a path
C18_Witness ==
  /\ pc = "returned"
  /\ desired_distance = U8Max
  /\ result.paths # <<>>
  /\ Len(result.paths[1]) = U8Max

====
